---- MODULE Spec2Model ----
(***************************************************************************)
(* corotwine: greenlet (coroutine) I/O on top of Twisted.                  *)
(*                                                                         *)
(* One connection is modelled: a _GreenletProtocol, its GreenletTransport  *)
(* and the greenlet that runs the handler function, together with the MAIN *)
(* (reactor) greenlet, one Deferred and one delayed call of the clock.     *)
(* Exactly one greenlet runs at a time (current); a switch is a change of  *)
(* current.  The code a greenlet executes between two switches is one      *)
(* step.  The handler function is arbitrary: in every step it chooses the  *)
(* next call it makes (read, write, wait, blockOn), returns or raises.     *)
(***************************************************************************)
EXTENDS Naturals, Sequences, FiniteSets, TLC

VARIABLES
    current,        \* greenlet.getcurrent(): "MAIN" or "W" (the handler's greenlet)
    wpc,            \* where the handler's greenlet is
    mainFrame,      \* what MAIN is suspended in while the greenlet runs
    _state,         \* GreenletTransport._state
    _paused,        \* GreenletTransport._paused
    _disconnected,  \* GreenletTransport._disconnected
    _buffer,        \* _GreenletProtocol._buffer
    wdata,          \* the argument of the write() the greenlet is suspended in
    stream,         \* what the Twisted transport was asked to write, in order
    timer,          \* seconds left of the delayed call made by wait(); 0: none
    deferred,       \* the Deferred: its state, current result, blockOn callbacks
    ret,            \* how the greenlet's last call ended
    raised,         \* what the last reactor callback raised into the reactor
    delivered,      \* all bytes given to dataReceived, in order
    consumed,       \* all bytes returned by read(), in order
    issued,         \* the number of write() calls the handler has made
    lostDuring,     \* where the greenlet was when connectionLost was called
    gtransport,     \* _GreenletProtocol.gtransport, the handler's GreenletTransport
    connects,       \* the number of reactor.connectTCP calls
    mret,           \* how the last corotwine call made in MAIN ended
    mainCbs,        \* cb/eb of a blockOn called in MAIN are first on the Deferred
    d_inner,        \* the Deferred d of deferredGreenlet's inner()
    hpc,            \* where the greenlet H is, a caller of the decorated function
    hret,           \* how the call H made ended
    failed,         \* the connection attempt of gConnectTCP has failed
    delimiter,      \* LineBuffer.delimiter
    lines,          \* LineBuffer.lines
    lbuffer,        \* the LineReceiver's buffer (LineBuffer.receiver)
    lpc,            \* "readLine" while a readLine() is in its loop, else "idle"
    lraised,        \* what the last readLine() raised
    inbound,        \* all bytes transport.read() has returned to readLine()
    returned,       \* the lines readLine() has returned, in order
    wlines,         \* the arguments of the writeLine() calls, in order
    written         \* the arguments of the transport's write() calls, in order

\* The state outside the connection: corotwine.defer and gConnectTCP.
futureVars == <<connects, mret, mainCbs, d_inner, hpc, hret, failed>>

\* The state of a LineBuffer and of the transport it wraps.
lineVars == <<delimiter, lines, lbuffer, lpc, lraised, inbound, returned,
              wlines, written>>

\* The state of the connection and its greenlet.
bridgeVars == <<current, wpc, mainFrame, _state, _paused, _disconnected,
                _buffer, wdata, stream, timer, deferred, ret, raised, delivered,
                consumed, issued, lostDuring, gtransport>>

vars == <<bridgeVars, futureVars, lineVars>>

\* ------------------------------------------------------------------ bounds
MaxData == 3        \* bytes delivered to the connection in one run
MaxChunk == 2       \* bytes in one dataReceived
MaxWrites == 2      \* write() calls the handler makes
MaxWait == 2        \* longest wait()
MaxConnects == 2    \* reactor.connectTCP calls
MaxInput == 4       \* symbols the wrapped transport's read() returns in all
MaxLines == 2       \* writeLine() calls

\* ------------------------------------------------------------ value sets
None == "None"
READING == "READING"
WRITING == "WRITING"
Unit == "()"                       \* what a switch() without arguments passes

\* The code never looks at the bytes it moves (it only tests the buffer for
\* emptiness), so the bytes are told apart by numbering them: the i-th byte the
\* connection receives is i, and the k-th write() call is given the data k.
\* Loss, duplication and reordering all show in such data.
Chunk(n) == [i \in 1..n |-> Len(delivered) + i]
Reasons == {"ConnectionDone", "ConnectionLost"}
Results == {"v1", "v2"}
Errors == {"e1", "e2"}
ConnectErrors == {"ConnectionRefusedError", "TimeoutError"}

\* inner() has not been called: its Deferred does not exist.
NoDeferred == [st |-> "none", val |-> None, fires |-> 0]

NoCall == [op |-> "none", kind |-> "value", data |-> <<>>, val |-> None,
           switched |-> FALSE]

Returned(op, data, val, switched) ==
    [op |-> op, kind |-> "value", data |-> data, val |-> val, switched |-> switched]

Raised(op, exc, switched) ==
    [op |-> op, kind |-> "raise", data |-> <<>>, val |-> exc, switched |-> switched]

Suspended == {"read", "write", "wait", "blockOn", "gConnectTCP"}

\* --------------------------------------------------------------- greenlets
\* The greenlet gives up control (MAIN.switch(), or its function ends) and MAIN
\* continues in the frame that switched into it.  val is what that switch()
\* returns in MAIN, exc the exception it raises there (None: returns).  A frame
\* of the reactor lets the exception through; the Deferred's callback chain
\* catches it and makes the outcome of blockOn's cb/eb the Deferred's new result.
DeferredAfter(d, val, exc) ==
    IF mainFrame = "deferred"
    THEN [d EXCEPT !.st = IF exc = None THEN "ok" ELSE "err",
                   !.val = IF exc = None THEN val ELSE exc]
    ELSE d

\* MAIN is inside the callback chain of a Deferred: the one given to blockOn,
\* or the one gConnectTCP made and _GreenletClientProtocol.connectionMade fires.
\* (mutant: every frame of MAIN catches what the greenlet raises)
InChain_Always == TRUE

InChain == mainFrame \in {"deferred", "_deferred"}

RaisedAfter(exc) == IF InChain THEN None ELSE exc

ToMain(val, exc) ==
    /\ current' = "MAIN"
    /\ mainFrame' = "reactor"
    /\ raised' = RaisedAfter(exc)

\* g.switch(...) from MAIN, inside `frame`: the greenlet continues where it is
\* suspended.  data/val is what its MAIN.switch() returns, paused0 the value of
\* _paused at the switch and pause whether the Twisted transport answers the
\* continued write() with pauseProducing.  Leaves _disconnected, _buffer, wdata,
\* timer, deferred, delivered,
\* issued and lostDuring to the caller.
\* (mutant: whatever call is resumed forwards the data of the last blocked write)
ForwardsWrite_Always == wdata # 0

\* (mutant: the resumed write() forgets its data)
ForwardsWrite_Never == FALSE

\* self._transport.write(data), after the MAIN.switch() of a blocked write()
ForwardsWrite == wpc = "write"

Switch(frame, data, val, paused0, pause) ==
    /\ raised' = None
    /\ IF wpc \in Suspended
       THEN /\ current' = "W"
            /\ mainFrame' = frame
            /\ wpc' = "run"
       ELSE \* a finished greenlet: switch() returns at once in its parent
            /\ current' = "MAIN"
            /\ mainFrame' = "reactor"
            /\ wpc' = wpc
    /\ _state' = IF wpc \in {"read", "write"} THEN None ELSE _state
    /\ stream' = IF ForwardsWrite THEN Append(stream, wdata) ELSE stream
    /\ _paused' = IF ForwardsWrite /\ pause THEN TRUE ELSE paused0
    /\ consumed' = IF wpc = "read" THEN consumed \o data ELSE consumed
    /\ ret' = CASE wpc = "read" -> Returned("read", data, val, TRUE)
               [] wpc = "write" -> Returned("write", <<>>, None, TRUE)
               [] wpc = "wait" -> Returned("wait", data, val, TRUE)
               [] wpc = "blockOn" -> Returned("blockOn", data, val, TRUE)
               [] wpc = "gConnectTCP" -> Returned("gConnectTCP", data, val, TRUE)
               [] OTHER -> ret

\* g.throw(exc) from MAIN, inside `frame`: the exception is raised at the
\* greenlet's MAIN.switch(); the statements after it are not executed.
Throw(frame, exc, paused0) ==
    /\ IF wpc \in Suspended
       THEN /\ current' = "W"
            /\ mainFrame' = frame
            /\ wpc' = "raised"
            /\ ret' = Raised(wpc, exc, TRUE)
            /\ raised' = None
       ELSE \* a finished greenlet: the exception is raised in its parent
            /\ current' = "MAIN"
            /\ mainFrame' = "reactor"
            /\ wpc' = wpc
            /\ ret' = ret
            /\ raised' = IF frame = "deferred" THEN None ELSE exc
    /\ _paused' = paused0
    /\ UNCHANGED <<_state, stream, consumed>>

\* ------------------------------------------------- GreenletTransport (worker)
Running == current = "W" /\ wpc = "run"

\* (mutant: buffered bytes are handed out before the disconnection is looked at)
HasDisconnected_UnlessBuffered == _disconnected # None /\ _buffer = <<>>

\* if self._disconnected is not None
HasDisconnected == _disconnected # None

\* (mutant: a single buffered byte is left for later)
HasBuffered_Long == Len(_buffer) > 1

\* (mutant: read() always waits for new bytes)
HasBuffered_Never == FALSE

\* if self._protocol._buffer != ""
HasBuffered == _buffer # <<>>

\* (mutant: write() never waits)
MustBlock_Never == FALSE

\* (mutant: the test is inverted)
MustBlock_Inverted == ~_paused

\* if self._paused
MustBlock == _paused

\* GreenletTransport.read
read ==
    /\ Running
    /\ IF HasDisconnected
       THEN \* self._disconnected.raiseException()
            /\ wpc' = "raised"
            /\ ret' = Raised("read", _disconnected, FALSE)
            /\ UNCHANGED <<current, mainFrame, raised, deferred, _state, _buffer,
                           consumed>>
       ELSE IF HasBuffered
       THEN \* buffer, self._protocol._buffer = self._protocol._buffer, ""
            /\ _buffer' = <<>>
            /\ consumed' = consumed \o _buffer
            /\ ret' = Returned("read", _buffer, None, FALSE)
            /\ UNCHANGED <<current, mainFrame, raised, deferred, _state, wpc>>
       ELSE \* self._state = READING; x = MAIN.switch()
            /\ _state' = READING
            /\ wpc' = "read"
            /\ ToMain(Unit, None)
            /\ deferred' = DeferredAfter(deferred, Unit, None)
            /\ UNCHANGED <<ret, _buffer, consumed>>
    /\ UNCHANGED <<gtransport, _paused, _disconnected, wdata, stream, timer, delivered, issued, lostDuring>>

\* GreenletTransport.write; pause: the Twisted transport's write() finds its
\* buffer full and calls the producer's pauseProducing() before it returns.
write(data, pause) ==
    /\ Running
    /\ IF HasDisconnected
       THEN /\ wpc' = "raised"
            /\ ret' = Raised("write", _disconnected, FALSE)
            /\ UNCHANGED <<current, mainFrame, raised, deferred, _state, _paused,
                           wdata, stream>>
       ELSE IF MustBlock
       THEN \* self._state = WRITING; MAIN.switch()
            /\ _state' = WRITING
            /\ wdata' = data
            /\ wpc' = "write"
            /\ ToMain(Unit, None)
            /\ deferred' = DeferredAfter(deferred, Unit, None)
            /\ UNCHANGED <<ret, _paused, stream>>
       ELSE \* self._transport.write(data)
            /\ stream' = Append(stream, data)
            /\ _paused' = pause
            /\ ret' = Returned("write", <<>>, None, FALSE)
            /\ UNCHANGED <<current, mainFrame, raised, deferred, _state, wdata, wpc>>
    /\ issued' = issued + 1
    /\ UNCHANGED <<gtransport, _disconnected, _buffer, timer, delivered, consumed, lostDuring>>

\* corotwine.clock.wait: clock.callLater(seconds, thisGreenlet.switch) and
\* MAIN.switch()
wait(seconds) ==
    /\ Running
    /\ timer' = seconds
    /\ wpc' = "wait"
    /\ ToMain(Unit, None)
    /\ deferred' = DeferredAfter(deferred, Unit, None)
    /\ UNCHANGED <<gtransport, _state, _paused, _disconnected, _buffer, wdata, stream, ret,
                   delivered, consumed, issued, lostDuring>>

\* corotwine.defer.blockOn(d), called in the greenlet.  addCallbacks on a
\* Deferred that has its result runs cb/eb at once, in the caller: the result
\* goes to `synchronous` and, cb/eb returning None, the Deferred's result
\* becomes None.
\* (mutant: blockOn switches to MAIN whether or not cb/eb has run)
Synchronous_Never == FALSE

\* if synchronous
Synchronous == deferred.st # "pending"

blockOn ==
    /\ Running
    /\ IF Synchronous /\ deferred.st = "ok"
       THEN /\ ret' = Returned("blockOn", <<>>, deferred.val, FALSE)
            /\ deferred' = [deferred EXCEPT !.st = "ok", !.val = None]
            /\ UNCHANGED <<current, mainFrame, raised, wpc>>
       ELSE IF Synchronous /\ deferred.st = "err"
       THEN /\ ret' = Raised("blockOn", deferred.val, FALSE)
            /\ wpc' = "raised"
            /\ deferred' = [deferred EXCEPT !.st = "ok", !.val = None]
            /\ UNCHANGED <<current, mainFrame, raised>>
       ELSE \* return MAIN.switch()
            /\ deferred' = [deferred EXCEPT !.cbs = TRUE]
            /\ wpc' = "blockOn"
            /\ ToMain(Unit, None)
            /\ UNCHANGED ret
    /\ UNCHANGED <<gtransport, _state, _paused, _disconnected, _buffer, wdata, stream, timer,
                   delivered, consumed, issued, lostDuring>>

\* The handler function: what it does with an exception a call raised, and how
\* it ends.
Catch ==
    /\ current = "W" /\ wpc = "raised"
    /\ wpc' = "run"
    /\ UNCHANGED <<gtransport, current, mainFrame, _state, _paused, _disconnected, _buffer,
                   wdata, stream, timer, deferred, ret, raised, delivered, consumed, issued, lostDuring>>

\* The exception leaves the handler function: the greenlet ends and the
\* exception is raised in its parent, MAIN.
Propagate ==
    /\ current = "W" /\ wpc = "raised"
    /\ wpc' = "dead"
    /\ ToMain(None, ret.val)
    /\ deferred' = DeferredAfter(deferred, None, ret.val)
    /\ UNCHANGED <<gtransport, _state, _paused, _disconnected, _buffer, wdata, stream, timer,
                   ret, delivered, consumed, issued, lostDuring>>

\* The handler function returns (None).
Return ==
    /\ Running
    /\ wpc' = "dead"
    /\ ToMain(None, None)
    /\ deferred' = DeferredAfter(deferred, None, None)
    /\ UNCHANGED <<gtransport, _state, _paused, _disconnected, _buffer, wdata, stream, timer,
                   ret, delivered, consumed, issued, lostDuring>>

\* The handler function raises an error of its own (1/0).
Explode ==
    /\ Running
    /\ wpc' = "dead"
    /\ ToMain(None, "ZeroDivisionError")
    /\ deferred' = DeferredAfter(deferred, None, "ZeroDivisionError")
    /\ UNCHANGED <<gtransport, _state, _paused, _disconnected, _buffer, wdata, stream, timer,
                   ret, delivered, consumed, issued, lostDuring>>

\* ------------------------------------------- _GreenletProtocol (reactor side)
InReactor == current = "MAIN"

\* _GreenletProtocol.connectionMade
connectionMade ==
    /\ InReactor
    /\ _buffer' = <<>>
    /\ _disconnected' = None
    /\ _state' = None
    /\ _paused' = FALSE
    /\ wpc' = "run"
    /\ current' = "W"
    /\ mainFrame' = "connectionMade"
    /\ raised' = None
    /\ gtransport' = "gtransport"
    /\ UNCHANGED <<wdata, stream, timer, deferred, ret, delivered, consumed, issued, lostDuring>>

\* _GreenletProtocol.pauseProducing
pauseProducing ==
    /\ InReactor
    /\ _paused' = TRUE
    /\ raised' = None
    /\ UNCHANGED <<gtransport, current, wpc, mainFrame, _state, _disconnected, _buffer, wdata,
                   stream, timer, deferred, ret, delivered, consumed, issued, lostDuring>>

\* _GreenletProtocol.resumeProducing
Asserted == _state = WRITING /\ _paused = TRUE

resumeProducing(pause) ==
    /\ InReactor
    /\ IF Asserted
       THEN Switch("callback", <<>>, Unit, FALSE, pause)
       ELSE \* an assert fails
            /\ raised' = "AssertionError"
            /\ UNCHANGED <<current, wpc, mainFrame, _state, _paused, stream, ret,
                           consumed>>
    /\ UNCHANGED <<gtransport, _disconnected, _buffer, wdata, timer, deferred, delivered, issued, lostDuring>>

\* _GreenletProtocol.dataReceived
\* (mutant: self._buffer = data)
Buffered_Overwrite(data) == data

\* self._buffer += data
Buffered(data) == _buffer \o data

\* (mutant: anything but a blocked write counts as reading)
IsReading_NotWriting == _state # WRITING

\* if self.gtransport._state == READING
IsReading == _state = READING

dataReceived(data, pause) ==
    /\ InReactor
    /\ delivered' = delivered \o data
    /\ IF IsReading
       THEN /\ _buffer' = <<>>
            /\ Switch("dataReceived", Buffered(data), None, _paused, pause)
       ELSE /\ _buffer' = Buffered(data)
            /\ raised' = None
            /\ UNCHANGED <<current, wpc, mainFrame, _state, _paused, stream, ret,
                           consumed>>
    /\ UNCHANGED <<gtransport, _disconnected, wdata, timer, deferred, issued, lostDuring>>

\* _GreenletProtocol.connectionLost
\* (mutant: only a read is interrupted)
InIO_ReadingOnly == _state = READING

\* (mutant: the greenlet is interrupted whatever it is doing)
InIO_Always == TRUE

\* if self.gtransport._state in (READING, WRITING)
InIO == _state \in {READING, WRITING}

connectionLost(reason) ==
    /\ InReactor
    /\ _disconnected' = reason
    /\ lostDuring' = wpc
    /\ IF InIO
       THEN Throw("callback", reason, _paused)
       ELSE /\ raised' = None
            /\ UNCHANGED <<current, wpc, mainFrame, _state, _paused, stream, ret,
                           consumed>>
    /\ UNCHANGED <<gtransport, _buffer, wdata, timer, deferred, delivered, issued>>

\* The clock advances by one second; the delayed call wait() made runs when its
\* time has come: thisGreenlet.switch().
\* (mutant: the delayed call runs a second early)
Due_Early == timer <= 2

\* clock.callLater(seconds, ...): the last of the seconds passes
Due == timer = 1

advance(pause) ==
    /\ InReactor
    /\ timer > 0
    /\ timer' = timer - 1
    /\ IF Due
       THEN Switch("callback", <<>>, Unit, _paused, pause)
       ELSE /\ raised' = None
            /\ UNCHANGED <<current, wpc, mainFrame, _state, _paused, stream, ret,
                           consumed>>
    /\ UNCHANGED <<gtransport, _disconnected, _buffer, wdata, deferred, delivered, issued, lostDuring>>

\* Deferred.callback(result), in MAIN.  blockOn's cb finds it is not in the
\* blocked greenlet and does current.switch(result).
\* (mutant: current.switch())
Passed_Nothing(result) == Unit

\* current.switch(result)
Passed(result) == result

callback(result, pause) ==
    /\ InReactor
    /\ deferred.st = "pending"
    /\ IF deferred.cbs
       THEN /\ Switch("deferred", <<>>, Passed(result), _paused, pause)
            /\ deferred' = [st |-> "ok", val |-> result, cbs |-> FALSE]
       ELSE /\ deferred' = [st |-> "ok", val |-> result, cbs |-> FALSE]
            /\ raised' = None
            /\ UNCHANGED <<current, wpc, mainFrame, _state, _paused, stream, ret,
                           consumed>>
    /\ UNCHANGED <<gtransport, _disconnected, _buffer, wdata, timer, delivered, issued, lostDuring>>

\* Deferred.errback(error), in MAIN.  blockOn's eb does
\* failure.throwExceptionIntoGenerator(current).
errback(error) ==
    /\ InReactor
    /\ deferred.st = "pending"
    /\ IF deferred.cbs
       THEN /\ Throw("deferred", error, _paused)
            /\ deferred' = [st |-> "err", val |-> error, cbs |-> FALSE]
       ELSE /\ deferred' = [st |-> "err", val |-> error, cbs |-> FALSE]
            /\ raised' = None
            /\ UNCHANGED <<current, wpc, mainFrame, _state, _paused, stream, ret,
                           consumed>>
    /\ UNCHANGED <<gtransport, _disconnected, _buffer, wdata, timer, delivered, issued, lostDuring>>

\* -------------------------------------------------------------- gConnectTCP
\* greenlet(function).switch() in MAIN: the greenlet starts without a
\* connection (examples.echoclient).
start ==
    /\ InReactor
    /\ wpc' = "run"
    /\ current' = "W"
    /\ mainFrame' = "start"
    /\ raised' = None
    /\ UNCHANGED <<_state, _paused, _disconnected, _buffer, wdata, stream, timer,
                   deferred, ret, delivered, consumed, issued, lostDuring,
                   gtransport, futureVars>>

\* (mutant: the assert is missing)
IsMain_Unchecked == FALSE

\* assert current is not MAIN: whether it fails
IsMain == current = "MAIN"

\* gConnectTCP, called in MAIN or in the greenlet: the assert, then
\* reactor.connectTCP(host, port, f) and blockOn(d) on the new Deferred d, which
\* suspends the greenlet (in MAIN, MAIN.switch() would return at once).
gConnectTCP ==
    /\ InReactor \/ Running
    /\ IF IsMain
       THEN /\ mret' = Raised("gConnectTCP", "AssertionError", FALSE)
            /\ UNCHANGED <<current, wpc, mainFrame, raised, deferred, connects, failed>>
       ELSE /\ connects' = connects + 1
            /\ IF current = "MAIN"
               THEN /\ mret' = Returned("gConnectTCP", <<>>, Unit, FALSE)
                    /\ UNCHANGED <<current, wpc, mainFrame, raised, deferred>>
               ELSE /\ wpc' = "gConnectTCP"
                    /\ ToMain(Unit, None)
                    /\ deferred' = DeferredAfter(deferred, Unit, None)
                    /\ UNCHANGED mret
    /\ UNCHANGED <<_state, _paused, _disconnected, _buffer, wdata, stream, timer,
                   ret, delivered, consumed, issued, lostDuring, gtransport,
                   mainCbs, d_inner, hpc, hret, failed>>

\* (mutant: the Deferred is fired with the protocol)
Connection_Protocol == "protocol"

\* self._deferred.callback(self.gtransport): what the Deferred is fired with
Connection == "gtransport"

\* _GreenletClientProtocol.connectionMade: a new GreenletTransport (no
\* disconnection, _state None, not paused), and the Deferred gConnectTCP blocks
\* on is fired with it: blockOn's cb switches to the greenlet.
clientConnectionMade(pause) ==
    /\ InReactor
    /\ _buffer' = <<>>
    /\ _disconnected' = None
    /\ gtransport' = "gtransport"
    /\ Switch("_deferred", <<>>, Connection, FALSE, pause)
    /\ UNCHANGED <<wdata, timer, deferred, delivered, issued, lostDuring,
                   futureVars>>

\* (mutant: the factory reports the failure to the Deferred, d.errback(reason))
Overridden_Errback == TRUE

\* f = ClientFactory(): whether clientConnectionFailed is overridden.  It is
\* not: the method of the base class does nothing.
Overridden == FALSE

\* The connection attempt fails: the connector calls the factory's
\* clientConnectionFailed(connector, reason), in MAIN.
clientConnectionFailed(reason) ==
    /\ InReactor
    /\ failed' = TRUE
    /\ IF Overridden
       THEN Throw("_deferred", reason, _paused)
       ELSE /\ raised' = None
            /\ UNCHANGED <<current, wpc, mainFrame, _state, _paused, stream,
                           ret, consumed>>
    /\ UNCHANGED <<_disconnected, _buffer, wdata, timer, deferred, delivered,
                   issued, lostDuring, gtransport, connects, mret, mainCbs,
                   d_inner, hpc, hret>>

\* ------------------------------------------------- corotwine.defer, in MAIN
\* blockOn(d) called in the MAIN greenlet, where `current` is MAIN.  A Deferred
\* that has its result runs cb/eb at once, as in the greenlet.  Otherwise cb and
\* eb stay on the Deferred and `return MAIN.switch()` is a switch of the running
\* greenlet to itself, which returns what it was given at once: the empty tuple.
blockOnMain ==
    /\ InReactor
    /\ IF Synchronous /\ deferred.st = "ok"
       THEN /\ mret' = Returned("blockOn", <<>>, deferred.val, FALSE)
            /\ deferred' = [deferred EXCEPT !.st = "ok", !.val = None]
            /\ UNCHANGED mainCbs
       ELSE IF Synchronous /\ deferred.st = "err"
       THEN /\ mret' = Raised("blockOn", deferred.val, FALSE)
            /\ deferred' = [deferred EXCEPT !.st = "ok", !.val = None]
            /\ UNCHANGED mainCbs
       ELSE \* return MAIN.switch()
            /\ mainCbs' = TRUE
            /\ mret' = Returned("blockOn", <<>>, Unit, FALSE)
            /\ UNCHANGED deferred
    /\ UNCHANGED <<current, wpc, mainFrame, raised, _state, _paused,
                   _disconnected, _buffer, wdata, stream, timer, ret, delivered,
                   consumed, issued, lostDuring, gtransport, connects, d_inner,
                   hpc, hret, failed>>

\* The Deferred fires in MAIN with the cb/eb of a blockOn called in MAIN first
\* on it: cb (eb) finds `greenlet.getcurrent() is current`, appends the result
\* (the failure) to its list and returns None, and None is what the callbacks
\* after it are given.
Swallowed(result) == IF mainCbs THEN None ELSE result

\* ------------------------------------------ corotwine.defer.deferredGreenlet
\* (mutant: inner() fires d with what switch() returned, d.callback(g.switch()))
Given_Fired(dd) == <<"ok", None>>

\* return d: the Deferred with its result, as the caller of inner() gets it
Given(dd) == <<dd.st, dd.val>>

\* A new greenlet's parent is the greenlet that made it: the caller of inner().
Parent == IF hpc = "inner" THEN "H" ELSE "MAIN"

\* MAIN has not run since inner() was called: the function has not given up
\* control yet.
FirstRun == mainFrame \in {"inner", "start"}

\* inner(): d = Deferred(); greenlet(intermediateGreenletFunction).switch(),
\* called in MAIN or in the greenlet H.
inner ==
    /\ \/ /\ current = "MAIN"
          /\ mainFrame' = "inner"
          /\ raised' = None
          /\ UNCHANGED hpc
       \/ /\ current = "H" /\ hpc = "run"
          /\ hpc' = "inner"
          /\ UNCHANGED <<mainFrame, raised>>
    /\ d_inner' = [st |-> "pending", val |-> None, fires |-> 0]
    /\ wpc' = "run"
    /\ current' = "W"
    /\ UNCHANGED <<_state, _paused, _disconnected, _buffer, wdata, stream, timer,
                   deferred, ret, delivered, consumed, issued, lostDuring,
                   gtransport, connects, mret, mainCbs, hret, failed>>

\* The function's greenlet has switched to MAIN for the first time: the switch()
\* in inner() returns and inner() returns d.
InnerReturns ==
    mret' = IF mainFrame = "inner" /\ current' = "MAIN"
            THEN Returned("inner", Given(d_inner), None, TRUE)
            ELSE mret

\* intermediateGreenletFunction has fired d and returns: the greenlet ends and
\* its parent continues, in the switch() of inner() if it is still there.
ToParent(exc) ==
    /\ wpc' = "dead"
    /\ IF Parent = "H"
       THEN /\ current' = "H"
            /\ hpc' = "got"
            /\ hret' = IF exc = None
                       THEN Returned("inner", Given(d_inner'), None, ~FirstRun)
                       ELSE Raised("inner", exc, ~FirstRun)
            /\ UNCHANGED <<mainFrame, raised, deferred, mret, failed>>
       ELSE /\ ToMain(None, exc)
            /\ deferred' = DeferredAfter(deferred, None, exc)
            /\ mret' = IF mainFrame # "inner" THEN mret
                       ELSE IF exc = None
                       THEN Returned("inner", Given(d_inner'), None, FALSE)
                       ELSE Raised("inner", exc, FALSE)
            /\ UNCHANGED <<hpc, hret, failed>>

\* (mutant: d.callback(None), the function's value is dropped)
ResultOf_None(value) == None

\* d.callback(gfunction(*args, **kwargs))
ResultOf(value) == value

\* gfunction returns value.
finish(value) ==
    /\ Running
    /\ d_inner' = [st |-> "ok", val |-> ResultOf(value),
                   fires |-> d_inner.fires + 1]
    /\ ToParent(None)
    /\ UNCHANGED <<_state, _paused, _disconnected, _buffer, wdata, stream, timer,
                   ret, delivered, consumed, issued, lostDuring, gtransport,
                   connects, mainCbs, failed>>

\* (mutant: no try/except around the call of gfunction)
Captured_Never == FALSE

\* except: d.errback()
Captured == TRUE

\* gfunction raises exc: an error of its own, or the error a call raised.
fail(exc) ==
    /\ current = "W"
    /\ \/ wpc = "run" /\ exc = "ZeroDivisionError"
       \/ wpc = "raised" /\ exc = ret.val
    /\ IF Captured
       THEN /\ d_inner' = [st |-> "err", val |-> exc, fires |-> d_inner.fires + 1]
            /\ ToParent(None)
       ELSE /\ UNCHANGED d_inner
            /\ ToParent(exc)
    /\ UNCHANGED <<_state, _paused, _disconnected, _buffer, wdata, stream, timer,
                   ret, delivered, consumed, issued, lostDuring, gtransport,
                   connects, mainCbs, failed>>

\* greenlet(h).switch() in MAIN: the greenlet H starts.
startH ==
    /\ InReactor
    /\ hpc = "notstarted"
    /\ hpc' = "run"
    /\ current' = "H"
    /\ mainFrame' = "start"
    /\ raised' = None
    /\ UNCHANGED <<wpc, _state, _paused, _disconnected, _buffer, wdata, stream,
                   timer, deferred, ret, delivered, consumed, issued, lostDuring,
                   gtransport, connects, mret, mainCbs, d_inner, hret, failed>>

\* H's function returns: H ends and its parent, MAIN, continues.
endH ==
    /\ current = "H"
    /\ hpc \in {"run", "got"}
    /\ hpc' = "dead"
    /\ ToMain(None, None)
    /\ deferred' = DeferredAfter(deferred, None, None)
    /\ UNCHANGED <<wpc, _state, _paused, _disconnected, _buffer, wdata, stream,
                   timer, ret, delivered, consumed, issued, lostDuring,
                   gtransport, connects, mret, mainCbs, d_inner, hret, failed>>

\* ------------------------------------------------------- a second greenlet
\* The greenlet H as a second worker: the handler of another connection, which
\* has a reference to this connection's GreenletTransport (Chat.clients) and
\* to the Deferred.
\* GreenletTransport.write(data) of this connection, called in H.  What H is
\* suspended with is never looked at again: no code switches to H.
otherWrite(data, pause) ==
    /\ current = "H" /\ hpc = "run"
    /\ IF HasDisconnected
       THEN \* raiseException(): H's function handles it
            /\ hret' = Raised("write", _disconnected, FALSE)
            /\ UNCHANGED <<current, hpc, mainFrame, raised, deferred, _state,
                           _paused, stream>>
       ELSE IF MustBlock
       THEN \* self._state = WRITING; MAIN.switch()
            /\ _state' = WRITING
            /\ hpc' = "write"
            /\ ToMain(Unit, None)
            /\ deferred' = DeferredAfter(deferred, Unit, None)
            /\ UNCHANGED <<hret, _paused, stream>>
       ELSE \* self._transport.write(data)
            /\ stream' = Append(stream, data)
            /\ _paused' = pause
            /\ hret' = Returned("write", <<>>, None, FALSE)
            /\ UNCHANGED <<current, hpc, mainFrame, raised, deferred, _state>>
    /\ issued' = issued + 1
    /\ UNCHANGED <<wpc, ret, wdata, gtransport, _disconnected, _buffer, timer,
                   delivered, consumed, lostDuring, connects, mret, mainCbs,
                   d_inner, failed>>

\* Deferred.callback(result), called in H.  blockOn's cb finds that the running
\* greenlet is not the blocked one and does current.switch(result): H is left
\* inside callback() and the blocked greenlet continues (its parent, MAIN, if
\* it has ended).
otherCallback(result) ==
    /\ current = "H" /\ hpc = "run"
    /\ deferred.st = "pending"
    /\ deferred' = [st |-> "ok", val |-> result, cbs |-> FALSE]
    /\ IF deferred.cbs
       THEN /\ Switch(mainFrame, <<>>, Passed(result), _paused, FALSE)
            /\ hpc' = "callback"
       ELSE UNCHANGED <<current, wpc, mainFrame, raised, _state, _paused,
                        stream, ret, consumed, hpc>>
    /\ UNCHANGED <<gtransport, _disconnected, _buffer, wdata, timer, delivered,
                   issued, lostDuring, connects, mret, mainCbs, d_inner, hret,
                   failed>>

\* --------------------------------------------------------------- LineBuffer
\* The bytes of the model.  "L" stands for a block of MAX_LENGTH bytes none of
\* which occurs in a delimiter; every other symbol is one byte.
MAX_LENGTH == 16384

Bytes == {"a", "L", "\r", "\n"}

CRLF == <<"\r", "\n">>

\* The delimiters a LineBuffer is constructed with.  With "\n" a "\r" is data.
Delimiters == {CRLF, <<"\n">>}

\* len() of a string of the model.
RECURSIVE Size(_)
Size(str) ==
    IF str = <<>> THEN 0
    ELSE (IF Head(str) = "L" THEN MAX_LENGTH ELSE 1) + Size(Tail(str))

\* The strings of at most n symbols.
Strings(n) == UNION {[1..k -> Bytes] : k \in 0..n}

\* Whether delim occurs in str at position i.
IsAt(str, delim, i) ==
    /\ i + Len(delim) - 1 <= Len(str)
    /\ SubSeq(str, i, i + Len(delim) - 1) = delim

\* The position of the first occurrence of delim in str, 0 if there is none.
Find(str, delim) ==
    IF \E i \in 1..Len(str) : IsAt(str, delim, i)
    THEN CHOOSE i \in 1..Len(str) :
             /\ IsAt(str, delim, i)
             /\ \A j \in 1..(i - 1) : ~IsAt(str, delim, j)
    ELSE 0

\* str.split(delim, 1) where delim occurs in str.
Split(str, delim) ==
    LET i == Find(str, delim)
    IN  [line |-> SubSeq(str, 1, i - 1),
         rest |-> SubSeq(str, i + Len(delim), Len(str))]

\* Whether the LineReceiver accepts a line.
Fits(str) == Size(str) <= MAX_LENGTH

\* LineReceiver.dataReceived's loop over its buffer str, the lines it has
\* delivered to lineReceived (LineBuffer.lines.append) so far being ls.  A
\* line that does not fit goes to lineLengthExceeded, which calls
\* self.transport.loseConnection(): the receiver of a LineBuffer has no
\* transport, so that the call raises AttributeError out of dataReceived.
RECURSIVE Deliver(_, _, _)
Deliver(str, delim, ls) ==
    IF Find(str, delim) = 0
    THEN IF Fits(str)
         THEN [buffer |-> str, lines |-> ls, exc |-> None]
         ELSE [buffer |-> <<>>, lines |-> ls, exc |-> "AttributeError"]
    ELSE LET sp == Split(str, delim)
         IN  IF Fits(sp.line)
             THEN Deliver(sp.rest, delim, Append(ls, sp.line))
             ELSE [buffer |-> <<>>, lines |-> ls, exc |-> "AttributeError"]

\* LineBuffer.readLine(), up to its first transport.read(): a buffered line is
\* popped and returned, and with none buffered the loop is entered.
readLine ==
    /\ lpc = "idle"
    /\ lraised' = None
    /\ IF lines # <<>>
       THEN /\ returned' = Append(returned, Head(lines))
            /\ lines' = Tail(lines)
            /\ lpc' = "idle"
       ELSE /\ lpc' = "readLine"
            /\ UNCHANGED <<returned, lines>>
    /\ UNCHANGED <<delimiter, lbuffer, inbound, wlines, written>>

\* The loop of readLine(): transport.read() returns data, which is fed to the
\* receiver; the loop ends with the first line when there is one now, and
\* with the exception when the receiver raised.
readLineLoop(data) ==
    /\ lpc = "readLine"
    /\ inbound' = inbound \o data
    /\ LET r == Deliver(lbuffer \o data, delimiter, lines)
       IN  /\ lbuffer' = r.buffer
           /\ IF r.exc # None
              THEN /\ lraised' = r.exc
                   /\ lines' = r.lines
                   /\ lpc' = "idle"
                   /\ UNCHANGED returned
              ELSE IF r.lines # <<>>
              THEN /\ returned' = Append(returned, Head(r.lines))
                   /\ lines' = Tail(r.lines)
                   /\ lpc' = "idle"
                   /\ UNCHANGED lraised
              ELSE /\ lpc' = "readLine"
                   /\ UNCHANGED <<returned, lines, lraised>>
    /\ UNCHANGED <<delimiter, wlines, written>>

\* What writeLine(data) passes to the transport's write().
Framed_Default(data) == data \o CRLF

Framed(data) == data \o delimiter

\* LineBuffer.writeLine(data).  The wrapped transport keeps what it is given.
writeLine(data) ==
    /\ wlines' = Append(wlines, data)
    /\ written' = Append(written, Framed(data))
    /\ UNCHANGED <<delimiter, lines, lbuffer, lpc, lraised, inbound, returned>>

\* ----------------------------------------------------------- specification
\* The protocol and the Deferred have been constructed; the connection is not
\* made yet.
Constructed ==
    /\ current = "MAIN"
    /\ wpc = "notstarted"
    /\ mainFrame = "reactor"
    /\ _state = None
    /\ _paused = FALSE
    /\ _disconnected = None
    /\ _buffer = <<>>
    /\ wdata = 0
    /\ stream = <<>>
    /\ timer = 0
    /\ deferred = [st |-> "pending", val |-> None, cbs |-> FALSE]
    /\ ret = NoCall
    /\ raised = None
    /\ delivered = <<>>
    /\ consumed = <<>>
    /\ issued = 0
    /\ lostDuring = None
    /\ gtransport = None
    /\ connects = 0
    /\ mret = NoCall
    /\ mainCbs = FALSE
    /\ d_inner = NoDeferred
    /\ hpc = "notstarted"
    /\ hret = NoCall
    /\ failed = FALSE
    /\ lines = <<>>
    /\ lbuffer = <<>>
    /\ lpc = "idle"
    /\ lraised = None
    /\ inbound = <<>>
    /\ returned = <<>>
    /\ wlines = <<>>
    /\ written = <<>>

\* A LineBuffer made without a delimiter argument has the default, "\r\n".
Init == Constructed /\ delimiter = CRLF

\* What Twisted promises a protocol: makeConnection once, then its callbacks
\* until connectionLost, which is the last one; resumeProducing only to a
\* producer it has paused.
NotConnected == wpc = "notstarted"
Connected == wpc # "notstarted" /\ _disconnected = None

MakeConnection == NotConnected /\ connectionMade /\ UNCHANGED <<futureVars, lineVars>>
DataReceived ==
    \E n \in 1..MaxChunk, pause \in BOOLEAN :
        /\ Connected
        /\ Len(delivered) + n <= MaxData
        /\ dataReceived(Chunk(n), pause)
        /\ UNCHANGED <<futureVars, lineVars>>
PauseProducing == Connected /\ pauseProducing /\ UNCHANGED <<futureVars, lineVars>>
ResumeProducing ==
    \E pause \in BOOLEAN :
        /\ Connected /\ _paused
        /\ resumeProducing(pause)
        /\ UNCHANGED <<futureVars, lineVars>>
ConnectionLost ==
    \E reason \in Reasons :
        Connected /\ connectionLost(reason) /\ UNCHANGED <<futureVars, lineVars>>
Advance == \E pause \in BOOLEAN : advance(pause) /\ UNCHANGED <<futureVars, lineVars>>
Callback ==
    \E result \in Results, pause \in BOOLEAN :
        callback(result, pause) /\ UNCHANGED <<futureVars, lineVars>>
Errback == \E error \in Errors : errback(error) /\ UNCHANGED <<futureVars, lineVars>>

\* What the handler function does next.
Read == read /\ UNCHANGED <<futureVars, lineVars>>
Write ==
    \E pause \in BOOLEAN :
        /\ issued < MaxWrites
        /\ write(issued + 1, pause)
        /\ UNCHANGED <<futureVars, lineVars>>
Wait == \E seconds \in 1..MaxWait : wait(seconds) /\ UNCHANGED <<futureVars, lineVars>>
\* Not while the Deferred's own callback chain is what resumed the greenlet:
\* whether addCallbacks then runs cb at once depends on the Twisted version.
BlockOn == mainFrame # "deferred" /\ blockOn /\ UNCHANGED <<futureVars, lineVars>>

\* How the handler function ends, and what it does with an exception.
Caught == Catch /\ UNCHANGED <<futureVars, lineVars>>
Propagated == Propagate /\ UNCHANGED <<futureVars, lineVars>>
Returns == Return /\ UNCHANGED <<futureVars, lineVars>>
Explodes == Explode /\ UNCHANGED <<futureVars, lineVars>>

Next ==
    \/ MakeConnection
    \/ DataReceived
    \/ PauseProducing
    \/ ResumeProducing
    \/ ConnectionLost
    \/ Advance
    \/ Callback
    \/ Errback
    \/ Read
    \/ Write
    \/ Wait
    \/ BlockOn
    \/ Caught
    \/ Propagated
    \/ Returns
    \/ Explodes

Spec == Init /\ [][Next]_vars

\* --------------------------------------------- specification: corotwine.defer
\* No connection: the greenlet W runs a function decorated with
\* deferredGreenlet, called in MAIN or in the greenlet H; the function waits,
\* blocks on the Deferred, returns or raises.  MAIN may call blockOn itself.
InnerCall == wpc = "notstarted" /\ inner /\ UNCHANGED lineVars
StartH == startH /\ UNCHANGED lineVars
EndH == endH /\ UNCHANGED lineVars
FutureWait ==
    \E seconds \in 1..MaxWait :
        /\ wait(seconds)
        /\ InnerReturns
        /\ UNCHANGED <<connects, mainCbs, d_inner, hpc, hret, lineVars, failed>>
FutureBlockOn ==
    /\ mainFrame # "deferred"
    /\ blockOn
    /\ InnerReturns
    /\ UNCHANGED <<connects, mainCbs, d_inner, hpc, hret, lineVars, failed>>
FutureCallback ==
    \E result \in Results :
        /\ callback(Swallowed(result), FALSE)
        /\ mainCbs' = FALSE
        /\ UNCHANGED <<connects, mret, d_inner, hpc, hret, lineVars, failed>>
FutureErrback ==
    \E error \in Errors :
        /\ IF mainCbs THEN callback(Swallowed(error), FALSE) ELSE errback(error)
        /\ mainCbs' = FALSE
        /\ UNCHANGED <<connects, mret, d_inner, hpc, hret, lineVars, failed>>
Finish == \E value \in Results : finish(value) /\ UNCHANGED lineVars
Fail ==
    \E exc \in Errors \cup {"ZeroDivisionError"} :
        fail(exc) /\ UNCHANGED lineVars
\* The callbacks of a blockOn called in MAIN are put on the Deferred before
\* those of the greenlet's blockOn, and once.
BlockOnMain ==
    ~deferred.cbs /\ ~mainCbs /\ blockOnMain /\ UNCHANGED lineVars

FutureNext ==
    \/ InnerCall
    \/ StartH
    \/ EndH
    \/ FutureWait
    \/ FutureBlockOn
    \/ Advance
    \/ FutureCallback
    \/ FutureErrback
    \/ Caught
    \/ Finish
    \/ Fail
    \/ BlockOnMain

FutureSpec == Init /\ [][FutureNext]_vars

\* ------------------------------------------------ specification: connections
\* One connection, accepted (server) or made by gConnectTCP (client): the
\* greenlet is started by connectionMade, or started in MAIN and calls
\* gConnectTCP.  With its transport it reads, writes, returns or raises.
Bridged == gtransport # None
Start == wpc = "notstarted" /\ start /\ UNCHANGED lineVars
Connect ==
    /\ gtransport = None /\ connects < MaxConnects /\ Running
    /\ gConnectTCP
    /\ UNCHANGED lineVars
ConnectInMain ==
    connects < MaxConnects /\ InReactor /\ gConnectTCP /\ UNCHANGED lineVars
\* A connection attempt ends once: the connection is made or it has failed.
ClientConnectionMade ==
    \E pause \in BOOLEAN :
        /\ wpc = "gConnectTCP" /\ ~failed
        /\ clientConnectionMade(pause)
        /\ UNCHANGED lineVars
ClientConnectionFailed ==
    \E reason \in ConnectErrors :
        /\ wpc = "gConnectTCP" /\ ~failed
        /\ clientConnectionFailed(reason)
        /\ UNCHANGED lineVars

ClientNext ==
    \/ MakeConnection
    \/ Start
    \/ Connect
    \/ ConnectInMain
    \/ ClientConnectionMade
    \/ ClientConnectionFailed
    \/ Bridged /\ DataReceived
    \/ Bridged /\ ResumeProducing
    \/ Bridged /\ ConnectionLost
    \/ Bridged /\ Read
    \/ Bridged /\ Write
    \/ Caught
    \/ Propagated
    \/ Returns
    \/ Explodes

ClientSpec == Init /\ [][ClientNext]_vars

\* ------------------------------------------------- specification: LineBuffer
\* A LineBuffer over a transport whose read() returns arbitrary
\* chunks and whose write() accepts everything, used by one greenlet.
ReadLine == readLine /\ UNCHANGED <<bridgeVars, futureVars>>

ReadLineLoop ==
    \E data \in Strings(MaxChunk) :
        /\ Len(inbound) + Len(data) <= MaxInput
        /\ readLineLoop(data)
        /\ UNCHANGED <<bridgeVars, futureVars>>

WriteLine ==
    \E data \in {<<>>, <<"a">>, <<"\r">>} :
        /\ Len(wlines) < MaxLines
        /\ writeLine(data)
        /\ UNCHANGED <<bridgeVars, futureVars>>

LineInit == Constructed /\ delimiter \in Delimiters

LineNext == ReadLine \/ ReadLineLoop \/ WriteLine

LineSpec == LineInit /\ [][LineNext]_vars


\* ------------------------------------- specification: callbacks in any order
\* One accepted connection whose callbacks come in any order once it is made:
\* connectionLost need not be the last one and may come again, with another
\* reason.  The handler reads, writes, returns or raises.
Made == wpc # "notstarted"

AnyDataReceived ==
    \E n \in 1..MaxChunk, pause \in BOOLEAN :
        /\ Made
        /\ Len(delivered) + n <= MaxData
        /\ dataReceived(Chunk(n), pause)
        /\ UNCHANGED <<futureVars, lineVars>>

AnyPauseProducing == Made /\ pauseProducing /\ UNCHANGED <<futureVars, lineVars>>

AnyResumeProducing ==
    \E pause \in BOOLEAN :
        /\ Made /\ _paused
        /\ resumeProducing(pause)
        /\ UNCHANGED <<futureVars, lineVars>>

AnyConnectionLost ==
    \E reason \in Reasons :
        Made /\ connectionLost(reason) /\ UNCHANGED <<futureVars, lineVars>>

AnyOrderNext ==
    \/ MakeConnection
    \/ AnyDataReceived
    \/ AnyPauseProducing
    \/ AnyResumeProducing
    \/ AnyConnectionLost
    \/ Read
    \/ Write
    \/ Caught
    \/ Propagated
    \/ Returns

AnyOrderSpec == Init /\ [][AnyOrderNext]_vars

\* ----------------------------------------------- specification: two greenlets
\* One accepted connection with its greenlet W, and a second greenlet H that
\* writes to the connection's transport and fires the Deferred W blocks on.
OtherWrite ==
    \E pause \in BOOLEAN :
        /\ Bridged
        /\ issued < MaxWrites
        /\ otherWrite(issued + 1, pause)
        /\ UNCHANGED lineVars

OtherCallback ==
    \E result \in Results : otherCallback(result) /\ UNCHANGED lineVars

WorkersNext ==
    \/ MakeConnection
    \/ StartH
    \/ OtherWrite
    \/ OtherCallback
    \/ EndH
    \/ DataReceived
    \/ PauseProducing
    \/ ResumeProducing
    \/ ConnectionLost
    \/ Callback
    \/ Read
    \/ Write
    \/ BlockOn
    \/ Caught
    \/ Propagated
    \/ Returns

WorkersSpec == Init /\ [][WorkersNext]_vars

\* ------------------------------------------------------------------ claims
\* The handler's greenlet calls read() / write(): one step of the model.
ReadCall == read
WriteCall == \E pause \in BOOLEAN : write(issued + 1, pause)

\* C1: the bytes returned by the read() calls so far, in order, followed by the
\* pending inbound buffer, are exactly the bytes delivered to dataReceived so
\* far, in delivery order.
C1_ReadsThenBufferAreDelivered == consumed \o _buffer = delivered

\* Three bytes were delivered; one read() was resumed with the first, a later
\* one with the second, and the third is buffered.
C1_Witness ==
    /\ delivered = <<1, 2, 3>>
    /\ consumed = <<1, 2>>
    /\ _buffer = <<3>>
    /\ ret = Returned("read", <<2>>, None, TRUE)

\* C2, as stated: every write() called while _paused is set suspends the greenlet
\* in WRITING and forwards nothing until resumeProducing resumes it, which then
\* forwards the data once.
C2_Original ==
    /\ [][(WriteCall /\ _paused)
            => (wpc' = "write" /\ _state' = WRITING /\ current' = "MAIN"
                /\ wdata' = issued' /\ stream' = stream)]_vars
    /\ [][(wpc = "write" /\ wpc' = "write") => stream' = stream]_vars
    /\ [][(wpc = "write" /\ \E pause \in BOOLEAN : resumeProducing(pause))
            => (current' = "W" /\ wpc' = "run" /\ _state' = None
                /\ ret' = Returned("write", <<>>, None, TRUE)
                /\ stream' = Append(stream, wdata))]_vars

\* C2, amended: a write() called while _paused is set and no disconnection is
\* recorded suspends the greenlet in WRITING and gives control to MAIN without
\* forwarding anything; nothing is forwarded while it stays suspended; the
\* resumeProducing that finds it suspended there resumes it, the write returns
\* and its data is appended to the transport's stream once.
C2_BlockedWriteForwardsOnResume ==
    /\ [][(WriteCall /\ _paused /\ _disconnected = None)
            => (wpc' = "write" /\ _state' = WRITING /\ current' = "MAIN"
                /\ wdata' = issued' /\ stream' = stream)]_vars
    /\ [][(wpc = "write" /\ wpc' = "write") => stream' = stream]_vars
    /\ [][(wpc = "write" /\ \E pause \in BOOLEAN : resumeProducing(pause))
            => (current' = "W" /\ wpc' = "run" /\ _state' = None
                /\ ret' = Returned("write", <<>>, None, TRUE)
                /\ stream' = Append(stream, wdata))]_vars

\* The second write() was blocked and has returned after resumeProducing; the
\* stream ends with its data.
C2_Witness ==
    /\ ret = Returned("write", <<>>, None, TRUE)
    /\ wpc = "run"
    /\ stream = <<1, 2>>
    /\ wdata = 2

\* C3: a write() called while no disconnection is recorded and _paused is false
\* appends its data to the transport's stream and returns in the same step: the
\* greenlet keeps running, MAIN does not run, and _state is None before and
\* after.
C3_UnpausedWriteNeverSuspends ==
    [][(WriteCall /\ _disconnected = None /\ ~_paused)
         => (stream' = Append(stream, issued') /\ current' = "W" /\ wpc' = "run"
             /\ mainFrame' = mainFrame /\ _state = None /\ _state' = None
             /\ ret' = Returned("write", <<>>, None, FALSE))]_vars

\* Two writes went straight through.
C3_Witness ==
    /\ ret = Returned("write", <<>>, None, FALSE)
    /\ stream = <<1, 2>>
    /\ current = "W"
    /\ _disconnected = None

\* C4: connectionLost(reason) delivered while the greenlet is suspended in
\* read() or in a blocked write() raises exactly reason in that call; nothing is
\* returned by the read and nothing is forwarded for the write.
C4_DisconnectRaisesInSuspendedIO ==
    [][\A reason \in Reasons :
         (connectionLost(reason) /\ wpc \in {"read", "write"})
           => (current' = "W" /\ wpc' = "raised"
               /\ ret' = Raised(wpc, reason, TRUE)
               /\ stream' = stream /\ consumed' = consumed
               /\ _buffer' = _buffer)]_vars

\* A blocked write() has raised ConnectionLost.
C4_Witness ==
    /\ wpc = "raised"
    /\ lostDuring = "write"
    /\ ret = Raised("write", "ConnectionLost", TRUE)
    /\ issued = Len(stream) + 1

\* C5: with a disconnection recorded, every read() and write() raises the
\* recorded error in the same step: the greenlet does not suspend, read() takes
\* nothing from the buffer and write() forwards nothing.
C5_IOAfterDisconnectRaisesAtOnce ==
    [][(_disconnected # None /\ (ReadCall \/ WriteCall))
         => (current' = "W" /\ wpc' = "raised"
             /\ ret'.kind = "raise" /\ ret'.val = _disconnected
             /\ ~ret'.switched /\ _disconnected' = _disconnected
             /\ stream' = stream /\ consumed' = consumed
             /\ _buffer' = _buffer)]_vars

\* The connection was lost while the greenlet was not in I/O; its next read()
\* raised although bytes are buffered.
C5_Witness ==
    /\ _disconnected = "ConnectionDone"
    /\ wpc = "raised"
    /\ ret = Raised("read", "ConnectionDone", FALSE)
    /\ _buffer # <<>>

\* C6: connectionLost delivered while the greenlet is suspended in wait() or
\* blockOn() does not resume it and raises nothing in it; the wait() or
\* blockOn() ends as it would have without the disconnection (wait returns when
\* the delayed call runs, blockOn gives the Deferred's result or error), and the
\* next read() or write() raises the disconnection's error.
C6_DisconnectOutsideIOWaitsForNextIO ==
    /\ [][\A reason \in Reasons :
            (connectionLost(reason) /\ wpc \in {"wait", "blockOn"})
              => (current' = "MAIN" /\ wpc' = wpc /\ ret' = ret
                  /\ raised' = None)]_vars
    /\ [][(wpc = "wait" /\ wpc' # "wait")
            => (timer = 1 /\ wpc' = "run"
                /\ ret' = Returned("wait", <<>>, Unit, TRUE))]_vars
    /\ [][(wpc = "blockOn" /\ wpc' # "blockOn")
            => (deferred.st = "pending" /\ deferred'.st # "pending"
                /\ ret'.op = "blockOn" /\ ret'.val \in Results \cup Errors)]_vars
    /\ [][(lostDuring \in {"wait", "blockOn"} /\ (ReadCall \/ WriteCall))
            => (wpc' = "raised" /\ ret'.kind = "raise"
                /\ ret'.val = _disconnected /\ ~ret'.switched)]_vars

\* The connection was lost during a wait(); the wait has returned and the read()
\* after it raised.
C6_Witness ==
    /\ lostDuring = "wait"
    /\ timer = 0
    /\ ret = Raised("read", "ConnectionDone", FALSE)

\* C7, as stated: dataReceived resumes the greenlet only if it is suspended in
\* read(); otherwise the bytes are appended to _buffer, and the next read()
\* returns the whole buffer without suspending and leaves it empty.
C7_Original ==
    /\ [][\A n \in 1..MaxChunk, pause \in BOOLEAN :
            (dataReceived(Chunk(n), pause) /\ wpc # "read")
              => (current' = "MAIN" /\ wpc' = wpc /\ ret' = ret
                  /\ _buffer' = _buffer \o Chunk(n)
                  /\ consumed' = consumed /\ stream' = stream)]_vars
    /\ [][(ReadCall /\ _buffer # <<>>)
            => (ret' = Returned("read", _buffer, None, FALSE) /\ _buffer' = <<>>
                /\ current' = "W" /\ wpc' = "run" /\ _state' = None)]_vars

\* C7, amended: dataReceived resumes the greenlet only if it is suspended in
\* read(); otherwise (suspended in a blocked write, in wait or blockOn, or
\* finished) the bytes are appended to _buffer in arrival order and nothing else
\* happens, and the next read(), unless a disconnection has been recorded by
\* then, returns the whole buffer without suspending and leaves it empty.
C7_DataOnlyResumesRead ==
    /\ [][\A n \in 1..MaxChunk, pause \in BOOLEAN :
            (dataReceived(Chunk(n), pause) /\ wpc # "read")
              => (current' = "MAIN" /\ wpc' = wpc /\ ret' = ret
                  /\ _buffer' = _buffer \o Chunk(n)
                  /\ consumed' = consumed /\ stream' = stream)]_vars
    /\ [][(ReadCall /\ _buffer # <<>> /\ _disconnected = None)
            => (ret' = Returned("read", _buffer, None, FALSE) /\ _buffer' = <<>>
                /\ current' = "W" /\ wpc' = "run" /\ _state' = None)]_vars

\* More bytes than one dataReceived brings were buffered while the greenlet was
\* in a blocked write, and one read() returned them all.
C7_Witness ==
    /\ ret.op = "read" /\ ret.kind = "value" /\ ~ret.switched
    /\ Len(ret.data) > MaxChunk
    /\ stream # <<>>
    /\ _buffer = <<>>

\* C8, as stated: whatever callbacks were delivered, disconnection included, a
\* read() called with bytes in the buffer returns them.
C8_Original ==
    [][(ReadCall /\ _buffer # <<>>) => consumed' = consumed \o _buffer]_vars

\* C8, amended: bytes leave _buffer only through read(), which returns them all;
\* every read() called with bytes in the buffer and no disconnection recorded
\* returns them.  (After a disconnection read() raises and the buffered bytes
\* stay in the buffer.)
C8_BufferedBytesReturnedUnlessDisconnected ==
    /\ [][\/ /\ Len(_buffer') >= Len(_buffer)
             /\ SubSeq(_buffer', 1, Len(_buffer)) = _buffer
          \/ /\ _buffer' = <<>>
             /\ ret'.op = "read" /\ ret'.kind = "value" /\ ret'.data = _buffer
             /\ consumed' = consumed \o _buffer]_vars
    /\ [][(ReadCall /\ _buffer # <<>> /\ _disconnected = None)
            => (consumed' = consumed \o _buffer /\ ret'.data = _buffer)]_vars

\* Bytes 2 and 3 were buffered and a read() returned both.
C8_Witness ==
    /\ consumed = <<1, 2, 3>>
    /\ ret = Returned("read", <<2, 3>>, None, FALSE)

C10_BlockOnPendingWaitsForResult ==
    /\ [][(BlockOn /\ deferred.st = "pending")
            => (wpc' = "blockOn" /\ current' = "MAIN" /\ ret' = ret)]_vars
    /\ [][(wpc = "blockOn" /\ wpc' # "blockOn")
            => (deferred.st = "pending" /\ deferred'.st # "pending")]_vars
    /\ [][\A result \in Results, pause \in BOOLEAN :
            (callback(result, pause) /\ wpc = "blockOn")
              => (current' = "W" /\ wpc' = "run"
                  /\ ret' = Returned("blockOn", <<>>, result, TRUE))]_vars
    /\ [][\A error \in Errors :
            (errback(error) /\ wpc = "blockOn")
              => (current' = "W" /\ wpc' = "raised"
                  /\ ret' = Raised("blockOn", error, TRUE))]_vars

\* blockOn was suspended and returned the value the Deferred was fired with.
C10_Witness ==
    /\ ret = Returned("blockOn", <<>>, "v2", TRUE)
    /\ wpc = "run"

\* C11: blockOn called in MAIN on a Deferred that has no result is rejected with
\* an error: the call raises, it returns no value.
C11_Original ==
    [][(blockOnMain /\ deferred.st = "pending") => mret'.kind = "raise"]_vars

\* C12: gConnectTCP called in MAIN raises an error (the assert fails) before
\* reactor.connectTCP is called; MAIN keeps running and no greenlet is touched.
C12_ConnectInMainIsRejected ==
    [][(gConnectTCP /\ current = "MAIN")
         => (mret' = Raised("gConnectTCP", "AssertionError", FALSE)
             /\ connects' = connects /\ current' = "MAIN" /\ wpc' = wpc
             /\ gtransport' = gtransport)]_vars

\* gConnectTCP was called in MAIN while a greenlet was waiting for its own
\* connection: the call raised and the one connect attempt is the greenlet's.
C12_Witness ==
    /\ mret = Raised("gConnectTCP", "AssertionError", FALSE)
    /\ current = "MAIN"
    /\ wpc = "gConnectTCP"
    /\ connects = 1

\* C13: gConnectTCP called in a greenlet calls reactor.connectTCP once and
\* suspends the greenlet; the greenlet leaves gConnectTCP only in the step of
\* _GreenletClientProtocol.connectionMade, and then gConnectTCP returns the
\* GreenletTransport made for the connection; afterwards dataReceived resumes the
\* greenlet's read() and connectionLost raises in its read() or blocked write().
C13_ConnectWaitsForConnection ==
    /\ [][(gConnectTCP /\ current = "W")
            => (connects' = connects + 1 /\ wpc' = "gConnectTCP"
                /\ current' = "MAIN" /\ ret' = ret /\ gtransport' = None)]_vars
    /\ [][(wpc = "gConnectTCP" /\ wpc' # "gConnectTCP")
            => (/\ \E pause \in BOOLEAN : clientConnectionMade(pause)
                /\ current' = "W" /\ wpc' = "run"
                /\ gtransport' # None
                /\ ret' = Returned("gConnectTCP", <<>>, gtransport', TRUE))]_vars
    /\ [][\A n \in 1..MaxChunk, pause \in BOOLEAN :
            (connects = 1 /\ wpc = "read" /\ dataReceived(Chunk(n), pause))
              => (current' = "W" /\ wpc' = "run"
                  /\ ret' = Returned("read", _buffer \o Chunk(n), None, TRUE))]_vars
    /\ [][\A reason \in Reasons :
            (connects = 1 /\ wpc \in {"read", "write"} /\ connectionLost(reason))
              => (current' = "W" /\ wpc' = "raised"
                  /\ ret' = Raised(wpc, reason, TRUE))]_vars

\* The greenlet that called gConnectTCP got its transport, was resumed in a
\* read() by dataReceived, and its next read() was ended by connectionLost.
C13_Witness ==
    /\ connects = 1
    /\ gtransport = "gtransport"
    /\ consumed # <<>>
    /\ ret = Raised("read", "ConnectionDone", TRUE)

\* The function's greenlet gives up control for the first time.
FirstSuspension == FirstRun /\ current = "W" /\ wpc' \in Suspended

\* C14: when the decorated function returns a value without having given up
\* control, d has that value as its result, fired once, in the very step in
\* which the call of the decorated function returns d to its caller.
C14_SynchronousResultIsResolved ==
    [][\A value \in Results :
         (finish(value) /\ FirstRun)
           => (/\ d_inner' = [st |-> "ok", val |-> value, fires |-> 1]
               /\ Parent = "MAIN"
                    => (current' = "MAIN"
                        /\ mret' = Returned("inner", <<"ok", value>>, None, FALSE))
               /\ Parent = "H"
                    => (current' = "H"
                        /\ hret' = Returned("inner", <<"ok", value>>, None, FALSE)))]_vars

\* The function made a blockOn on a Deferred that had its result, returned v2,
\* and MAIN got the Deferred with v2 in it.
C14_Witness ==
    /\ mret = Returned("inner", <<"ok", "v2">>, None, FALSE)
    /\ ret = Returned("blockOn", <<>>, "v1", FALSE)
    /\ wpc = "dead"
    /\ current = "MAIN"

\* C15, as stated: whoever calls the decorated function, when the function gives
\* up control for the first time the call returns d without a result, and a call
\* that returns after the function gave up control returns d without a result;
\* d has no result while the function is suspended and gets one only in the step
\* in which the function returns, the value it returns.
C15_Original ==
    /\ [][FirstSuspension
            => (\/ mret' = Returned("inner", <<"pending", None>>, None, TRUE)
                \/ hret' = Returned("inner", <<"pending", None>>, None, TRUE))]_vars
    /\ [][(hret' # hret /\ hret'.switched) => hret'.data = <<"pending", None>>]_vars
    /\ [][(mret' # mret /\ mret'.op = "inner" /\ mret'.switched)
            => mret'.data = <<"pending", None>>]_vars
    /\ [][wpc' \in Suspended => d_inner'.st = "pending"]_vars
    /\ [][(d_inner.st = "pending" /\ d_inner'.st = "ok")
            => \E value \in Results :
                 finish(value) /\ d_inner'.val = value /\ wpc' = "dead"]_vars

\* C15, amended: when the decorated function is called in MAIN and gives up
\* control for the first time, the call returns d without a result in that step
\* (the function has then run up to that point); d has no result while the
\* function is suspended and gets one only in the step in which the function
\* returns, the value it returns.
C15_AsynchronousResultResolvesOnReturn ==
    /\ [][(FirstSuspension /\ Parent = "MAIN")
            => (current' = "MAIN"
                /\ mret' = Returned("inner", <<"pending", None>>, None, TRUE))]_vars
    /\ [][(mret' # mret /\ mret'.op = "inner" /\ mret'.switched)
            => mret'.data = <<"pending", None>>]_vars
    /\ [][wpc' \in Suspended => d_inner'.st = "pending"]_vars
    /\ [][(d_inner.st = "pending" /\ d_inner'.st = "ok")
            => \E value \in Results :
                 finish(value) /\ d_inner'.val = value /\ wpc' = "dead"]_vars

\* MAIN got the Deferred without a result while the function was in wait(); the
\* delayed call resumed the function, it returned v1 and the Deferred has v1.
C15_Witness ==
    /\ mret = Returned("inner", <<"pending", None>>, None, TRUE)
    /\ ret = Returned("wait", <<>>, Unit, TRUE)
    /\ d_inner = [st |-> "ok", val |-> "v1", fires |-> 1]
    /\ wpc = "dead"

\* C16: an error the decorated function raises, before or after it gave up
\* control, becomes the failure of d: d is fired with it, nothing is raised into
\* the reactor, into the Deferred chain that resumed the greenlet or into the
\* caller of the decorated function; d is fired at most once, keeps its result,
\* and has been fired once when the function has ended.
C16_ErrorsBecomeTheFailure ==
    /\ [][\A exc \in Errors \cup {"ZeroDivisionError"} :
            fail(exc)
              => (/\ d_inner' = [st |-> "err", val |-> exc, fires |-> 1]
                  /\ wpc' = "dead"
                  /\ raised' = None
                  /\ IF Parent = "MAIN"
                     THEN current' = "MAIN"
                          /\ (mainFrame = "deferred" => deferred'.st = "ok")
                     ELSE current' = "H" /\ deferred' = deferred
                  /\ mret' = mret
                       \/ mret' = Returned("inner", <<"err", exc>>, None, FALSE)
                  /\ hret' = hret
                       \/ hret' = Returned("inner", <<"err", exc>>, None, ~FirstRun))]_vars
    /\ [][endH => (raised' = None /\ (mainFrame = "deferred" => deferred'.st = "ok"))]_vars
    /\ [][d_inner'.fires <= 1 /\ (wpc' = "dead" <=> d_inner'.fires = 1)]_vars
    /\ [][d_inner.st \in {"ok", "err"} => d_inner' = d_inner]_vars

\* The function was resumed by the Deferred it blocked on and then raised 1/0:
\* d has failed with it, MAIN had got d without a result, nothing was raised.
C16_Witness ==
    /\ d_inner = [st |-> "err", val |-> "ZeroDivisionError", fires |-> 1]
    /\ mret = Returned("inner", <<"pending", None>>, None, TRUE)
    /\ ret = Returned("blockOn", <<>>, "v1", TRUE)
    /\ raised = None
    /\ deferred.st = "ok"

\* C17: wait(n) in the greenlet schedules the delayed call n seconds ahead and
\* gives control to MAIN; while more than the last second is left the clock's
\* advance does not resume the greenlet, and nothing else takes it out of the
\* wait; when the n-th second passes the delayed call resumes it, wait returns,
\* and no delayed call is left to resume it again.
C17_WaitResumesOnceWhenDue ==
    /\ [][\A seconds \in 1..MaxWait :
            wait(seconds)
              => (current' = "MAIN" /\ wpc' = "wait" /\ timer' = seconds
                  /\ ret' = ret)]_vars
    /\ [][(wpc = "wait" /\ timer > 1 /\ \E pause \in BOOLEAN : advance(pause))
            => (current' = "MAIN" /\ wpc' = "wait" /\ timer' = timer - 1)]_vars
    /\ [][(wpc = "wait" /\ wpc' # "wait")
            => (/\ timer = 1 /\ timer' = 0
                /\ \E pause \in BOOLEAN : advance(pause)
                /\ current' = "W" /\ wpc' = "run"
                /\ ret' = Returned("wait", <<>>, Unit, TRUE))]_vars
    /\ [][wpc' # "wait" => timer' = 0]_vars

\* A wait was ended by the clock although data had arrived and the connection
\* had been lost during it: neither resumed the greenlet.
C17_Witness ==
    /\ ret = Returned("wait", <<>>, Unit, TRUE)
    /\ wpc = "run"
    /\ timer = 0
    /\ lostDuring = "wait"
    /\ _buffer # <<>>

\* C18, as stated: an error the handler function raises while MAIN is in the
\* connectionMade (of a server or of a client connection) or dataReceived that
\* started or resumed the greenlet ends the greenlet and is raised out of that
\* callback.
C18_Original ==
    [][(Explode /\ mainFrame \in {"connectionMade", "_deferred", "dataReceived"})
         => (wpc' = "dead" /\ current' = "MAIN"
             /\ raised' = "ZeroDivisionError")]_vars

\* C18, amended: an error the handler function raises while MAIN is in the
\* _GreenletProtocol.connectionMade that started the greenlet (no suspension
\* yet) or in the dataReceived that resumed its read() ends the greenlet and is
\* raised out of that callback.  (The connectionMade of a client connection
\* resumes the greenlet through gConnectTCP's Deferred, whose callback chain
\* keeps the error.)
C18_HandlerErrorLeavesTheCallback ==
    [][(Explode /\ mainFrame \in {"connectionMade", "dataReceived"})
         => (wpc' = "dead" /\ current' = "MAIN"
             /\ raised' = "ZeroDivisionError")]_vars

\* The handler of a client connection raised after dataReceived had resumed its
\* read(): the error came out of dataReceived.
C18_Witness ==
    /\ raised = "ZeroDivisionError"
    /\ wpc = "dead"
    /\ connects = 1
    /\ ret.op = "read" /\ ret.kind = "value" /\ ret.switched

\* The delimiter-terminated records of str, in order, the delimiter stripped.
RECURSIVE Records(_, _)
Records(str, delim) ==
    IF Find(str, delim) = 0 THEN <<>>
    ELSE <<Split(str, delim).line>> \o Records(Split(str, delim).rest, delim)

\* What follows the last delimiter of str.
RECURSIVE Fragment(_, _)
Fragment(str, delim) ==
    IF Find(str, delim) = 0 THEN str
    ELSE Fragment(Split(str, delim).rest, delim)

\* C19: whatever chunks read() has returned and whatever the delimiter is,
\* readLine() does not fail, the lines it has returned followed by the lines
\* still buffered are exactly the delimiter-terminated records of the
\* concatenated input, in order and each once, the fragment after the last
\* delimiter is retained, and readLine() is about to call read() only when no
\* line is buffered.
C19_Original ==
    /\ lraised = None
    /\ returned \o lines = Records(inbound, delimiter)
    /\ lbuffer = Fragment(inbound, delimiter)
    /\ lpc = "readLine" => lines = <<>>

\* The bytes a transport has been given by a sequence of write() calls.
RECURSIVE Concatenated(_)
Concatenated(calls) ==
    IF calls = <<>> THEN <<>> ELSE Head(calls) \o Concatenated(Tail(calls))

\* data1 + delim + data2 + delim + ... for a sequence of lines.
RECURSIVE Terminated(_, _)
Terminated(ls, delim) ==
    IF ls = <<>> THEN <<>>
    ELSE Head(ls) \o delim \o Terminated(Tail(ls), delim)

\* C20: every writeLine(data) has made exactly one write() call on the wrapped
\* transport, with data followed by the configured delimiter, so that the
\* bytes written are data1 + delimiter + data2 + delimiter + ... in call order.
C20_WriteLineTerminatesEachLine ==
    /\ Len(written) = Len(wlines)
    /\ \A i \in 1..Len(wlines) : written[i] = wlines[i] \o delimiter
    /\ Concatenated(written) = Terminated(wlines, delimiter)

\* Two different lines have been written with a delimiter other than the
\* default.
C20_Witness ==
    /\ Len(wlines) = 2
    /\ wlines[1] # wlines[2]
    /\ delimiter # CRLF
    /\ Len(written) = 2

\* C21: _state is READING only while the handler's greenlet is suspended in
\* read() and WRITING only while it is suspended in write(), and None in every
\* other state; so it is None after a read() or write() has returned or has
\* raised the exception connectionLost threw into it.
C21_Original ==
    /\ _state = READING => wpc = "read"
    /\ _state = WRITING => wpc = "write"
    /\ (ret.op \in {"read", "write"} /\ wpc \in {"run", "raised"})
         => _state = None

\* C22: once connectionLost has set _disconnected, no step changes it, a
\* further connectionLost with another reason included.
C22_Original == [][_disconnected # None => _disconnected' = _disconnected]_vars

\* C23: every pauseProducing sets _paused, and every resumeProducing leaves it
\* false (the Twisted transport not pausing the producer again during the
\* callback), so that the next write() does not suspend.
C23_Original ==
    [][/\ pauseProducing => _paused'
       /\ resumeProducing(FALSE) => ~_paused']_vars

\* C24: whenever resumeProducing is called, _state is WRITING and _paused is
\* set: neither assert fails.
C24_Original ==
    [][(\E pause \in BOOLEAN : resumeProducing(pause))
         => (Asserted /\ raised' # "AssertionError")]_vars

\* C27: whenever MAIN runs and _state is READING, _buffer is empty; so a
\* dataReceived that finds _state READING passes the greenlet exactly the bytes
\* it was called with, as the value of the suspended read(), and leaves _buffer
\* empty.
C27_ReadingMeansEmptyBuffer ==
    /\ []((InReactor /\ _state = READING) => _buffer = <<>>)
    /\ [][\A n \in 1..MaxChunk, pause \in BOOLEAN :
            (IsReading /\ dataReceived(Chunk(n), pause))
                => (/\ ret' = Returned("read", Chunk(n), None, TRUE)
                    /\ consumed' = consumed \o Chunk(n)
                    /\ _buffer' = <<>>)]_vars

\* A first byte was buffered and returned by a read() at once; the next read()
\* was suspended when two bytes came, and has returned exactly those.
C27_Witness ==
    /\ ret = Returned("read", <<2, 3>>, None, TRUE)
    /\ consumed = <<1, 2, 3>>
    /\ _buffer = <<>>
    /\ wpc = "run"

\* C28: the greenlet of the connection being the only user of its transport,
\* data is passed to the Twisted transport's write() only by a write() called
\* while _paused was false, or by the write() that resumeProducing resumes after
\* it has cleared _paused.
C28_NoForwardWhilePaused ==
    [][stream' # stream
         => \/ WriteCall /\ ~_paused
            \/ /\ \E pause \in BOOLEAN : resumeProducing(pause)
               /\ Asserted /\ wpc = "write"]_vars

\* The first write() was called after pauseProducing, waited, and was forwarded
\* by resumeProducing.
C28_Witness ==
    /\ ret = Returned("write", <<>>, None, TRUE)
    /\ issued = 1
    /\ stream = <<1>>
    /\ ~_paused
    /\ wpc = "run"

\* A write() call ends in this step: it returns, at once or after waiting, or it
\* raises, at once or because connectionLost throws into it.
WriteReturns ==
    \/ WriteCall /\ wpc' = "run"
    \/ wpc = "write" /\ wpc' = "run"

WriteRaises ==
    \/ WriteCall /\ wpc' = "raised"
    \/ wpc = "write" /\ wpc' = "raised"

\* C29: the Twisted transport is given the data of the write() calls in the
\* order of the calls and each at most once (the k-th call has the data k);
\* what it is given is always the data of the latest call; a write() that
\* returns has had its data forwarded, once, and a write() that raises has
\* forwarded nothing.
C29_WritesForwardedInOrderOnce ==
    /\ [](\A i, j \in 1..Len(stream) : i < j => stream[i] < stream[j])
    /\ [](\A i \in 1..Len(stream) : stream[i] \in 1..issued)
    /\ [][stream' # stream => stream' = Append(stream, issued')]_vars
    /\ [][WriteReturns
            => (/\ stream' = Append(stream, issued')
                /\ \A i \in 1..Len(stream) : stream[i] # issued')]_vars
    /\ [][WriteRaises
            => (/\ stream' = stream
                /\ \A i \in 1..Len(stream) : stream[i] # issued')]_vars

\* The first write() waited and was interrupted by connectionLost; nothing was
\* forwarded.
C29_Witness ==
    /\ ret = Raised("write", "ConnectionLost", TRUE)
    /\ issued = 1
    /\ stream = <<>>
    /\ wpc = "raised"

\* C30: the greenlet suspended in gConnectTCP is resumed by the client
\* protocol's connectionMade and by nothing else; once the connection attempt
\* has failed it stays suspended there in every later state, MAIN runs, and
\* nothing is raised in the greenlet or returned to it.
C30_ConnectResumesOnlyWhenConnected ==
    /\ [][(wpc = "gConnectTCP" /\ wpc' # "gConnectTCP")
            => (/\ \E pause \in BOOLEAN : clientConnectionMade(pause)
                /\ ret' = Returned("gConnectTCP", <<>>, Connection, TRUE))]_vars
    /\ [][\A reason \in ConnectErrors :
            clientConnectionFailed(reason)
                => (wpc' = "gConnectTCP" /\ current' = "MAIN" /\ ret' = ret
                    /\ raised' = None /\ deferred' = deferred)]_vars
    /\ [](failed => [](/\ failed
                      /\ wpc = "gConnectTCP"
                      /\ current = "MAIN"
                      /\ ret.op # "gConnectTCP"))

\* The attempt has failed and MAIN has gone on (it has called gConnectTCP
\* itself, which the assert rejected) while the greenlet is still suspended.
C30_Witness ==
    /\ failed
    /\ wpc = "gConnectTCP"
    /\ mret = Raised("gConnectTCP", "AssertionError", FALSE)
    /\ connects = 1

\* C25: a write() on the connection's transport made by a greenlet other than
\* the connection's own (Chat.handleConnection writing a line to the other
\* clients) changes neither _state nor _buffer, and changes _paused only
\* through the pauseProducing its forwarded data causes.
C25_Original ==
    [][(\E pause \in BOOLEAN : otherWrite(issued + 1, pause))
         => (/\ _state' = _state
             /\ _buffer' = _buffer
             /\ _paused' # _paused => stream' # stream)]_vars

\* C26: a running greenlet other than MAIN gives up control only by ending or
\* by suspending in read(), write(), wait(), blockOn() or gConnectTCP; in
\* particular not by firing the Deferred another greenlet is blocked on.
C26_Original ==
    /\ [](current \in {"MAIN", "W", "H"})
    /\ [][(current = "W" /\ current' # "W") => wpc' \in Suspended \cup {"dead"}]_vars
    /\ [][(current = "H" /\ current' # "H") => hpc' \in {"write", "dead"}]_vars

====
